---- MODULE Spec2Model ----
(***************************************************************************)
(* Model of stripe_server.js: the webhook handler that projects Stripe     *)
(* events onto the in-memory `subscriptions` map, and the checkout         *)
(* handler that turns {plan, orgId} into vendor calls.                     *)
(*                                                                         *)
(* Node runs one callback at a time.  The webhook handler contains no      *)
(* await, so one invocation is one atomic step; several webhook calls may  *)
(* be in flight (received, body still being read) and their handlers run   *)
(* in any order.  The checkout handler awaits twice, so one invocation is  *)
(* three steps that interleave with those of other invocations.            *)
(***************************************************************************)
EXTENDS Integers, Sequences, FiniteSets, Bags, TLC

VARIABLES
    subscriptions,      \* the object `subscriptions`: own property key -> {plan, status}
    inflight,           \* webhook calls received and not yet handled: a bag of requests
    log,                \* webhook calls handled so far, in handling order, with the response sent
    received,           \* how many webhook calls have arrived
    checkouts,          \* invocations of the checkout handler, each with its position
    customersCreated,   \* calls made to stripe.customers.create
    sessionsRequested   \* calls made to stripe.checkout.sessions.create

vars == <<subscriptions, inflight, log, received, checkouts, customersCreated, sessionsRequested>>
webhookVars == <<subscriptions, inflight, log, received>>
checkoutVars == <<checkouts, customersCreated, sessionsRequested>>

\* ------------------------------------------------------------------ bounds

MaxRequests == 3        \* webhook calls in one behaviour
MaxCheckouts == 2       \* checkout calls in one behaviour

\* ------------------------------------------------------------------ values

Undefined == "<undefined>"      \* the JavaScript value undefined

OrgIds == {"acme", "globex"}
Plans == {"pro", "business"}

CheckoutCompleted == "checkout.session.completed"
SubscriptionUpdated == "customer.subscription.updated"
SubscriptionDeleted == "customer.subscription.deleted"
InvoicePaid == "invoice.paid"

HandledTypes == {CheckoutCompleted, SubscriptionUpdated, SubscriptionDeleted}

\* An event as the handler reads it: event.type, and of event.data.object the
\* fields subscription (truthy or not), metadata (an object or missing),
\* metadata.orgId, metadata.plan, orgId, plan and status.
Ev(type, sub, hasMeta, mOrg, mPlan, org, plan, status) ==
    [type |-> type, subscription |-> sub, hasMetadata |-> hasMeta,
     metaOrgId |-> mOrg, metaPlan |-> mPlan, orgId |-> org, plan |-> plan,
     status |-> status]

CheckoutEvents ==
    {Ev(CheckoutCompleted, TRUE, TRUE, m[1], m[2], Undefined, Undefined, "complete") :
        m \in {<<"acme", "pro">>, <<"globex", "business">>, <<Undefined, Undefined>>}}
    \cup {Ev(CheckoutCompleted, TRUE, FALSE, Undefined, Undefined, Undefined, Undefined, "complete"),
          Ev(CheckoutCompleted, FALSE, TRUE, "globex", "pro", "acme", "business", "complete")}

UpdatedEvents ==
    {Ev(SubscriptionUpdated, FALSE, TRUE, m[1], m[2], Undefined, Undefined, m[3]) :
        m \in {<<"acme", "pro", "active">>, <<"acme", "business", "past_due">>,
               <<"globex", "pro", "active">>}}
    \cup {Ev(SubscriptionUpdated, FALSE, FALSE, Undefined, Undefined, Undefined, Undefined, "active")}

DeletedEvents ==
    {Ev(SubscriptionDeleted, FALSE, TRUE, m[1], m[2], Undefined, Undefined, "canceled") :
        m \in {<<"acme", "pro">>, <<"globex", "business">>}}

OtherEvents ==
    {Ev(InvoicePaid, FALSE, FALSE, Undefined, Undefined, Undefined, Undefined, "paid")}

Events == CheckoutEvents \cup UpdatedEvents \cup DeletedEvents \cup OtherEvents

\* A webhook call: the signed body, and whether the signature header matches it.
Requests ==
    [sigValid : {TRUE}, event : Events]
    \cup [sigValid : {FALSE},
          event : {Ev(SubscriptionUpdated, FALSE, TRUE, "acme", "business", Undefined, Undefined, "active"),
                   Ev(SubscriptionDeleted, FALSE, TRUE, "globex", "business", Undefined, Undefined, "canceled")}]

\* ------------------------------------------------------------------ webhook handler

\* A property key: obj[undefined] is obj["undefined"].
PropertyKey(v) == IF v = Undefined THEN "undefined" ELSE v

Keys == {PropertyKey(v) : v \in OrgIds \cup {Undefined}}

\* A handler that skips the verification.
SignatureNeverFails(req) == FALSE

\* stripe.webhooks.constructEvent throws when the signature does not verify.
SignatureFails(req) == ~req.sigValid

\* A handler that reads session.metadata whatever session.subscription is.
CheckoutFieldsFromMetadata(e) == [orgId |-> e.metaOrgId, plan |-> e.metaPlan]

\* const { orgId, plan } = session.subscription ? session.metadata : session;
CheckoutFields(e) ==
    IF e.subscription
    THEN [orgId |-> e.metaOrgId, plan |-> e.metaPlan]
    ELSE [orgId |-> e.orgId, plan |-> e.plan]

\* A handler that reads data.object.metadata.orgId ahead of the switch.
ThrowsWithoutMetadata(e) == ~e.hasMetadata

\* The handler throws a TypeError where it reads a property of a missing
\* metadata: destructuring it (checkout) or subscription.metadata.orgId.
Throws(e) ==
    CASE e.type = CheckoutCompleted -> e.subscription /\ ~e.hasMetadata
      [] e.type = SubscriptionUpdated -> ~e.hasMetadata
      [] e.type = SubscriptionDeleted -> ~e.hasMetadata
      [] OTHER -> FALSE

\* A write that keeps the record an organisation already has.
PutIfAbsent(subs, orgId, record) ==
    [k \in DOMAIN subs \cup {PropertyKey(orgId)} |->
        IF k \in DOMAIN subs THEN subs[k] ELSE record]

\* A write that replaces the whole map by the one record.
PutReplacesMap(subs, orgId, record) ==
    [k \in {PropertyKey(orgId)} |-> record]

\* A write that sets the plan and leaves the status of an existing record.
PutMergesFields(subs, orgId, record) ==
    [k \in DOMAIN subs \cup {PropertyKey(orgId)} |->
        IF k # PropertyKey(orgId) THEN subs[k]
        ELSE IF k \in DOMAIN subs THEN [plan |-> record.plan, status |-> subs[k].status]
        ELSE record]

\* subscriptions[orgId] = record
Put(subs, orgId, record) ==
    [k \in DOMAIN subs \cup {PropertyKey(orgId)} |->
        IF k = PropertyKey(orgId) THEN record ELSE subs[k]]

\* A switch whose checkout case starts the trial only for a new organisation
\* and activates an organisation that is already trialing.
ApplyEventActivates(subs, e) ==
    CASE e.type = CheckoutCompleted ->
            Put(subs, CheckoutFields(e).orgId,
                [plan |-> CheckoutFields(e).plan,
                 status |-> IF PropertyKey(CheckoutFields(e).orgId) \in DOMAIN subs
                                /\ subs[PropertyKey(CheckoutFields(e).orgId)].status = "trialing"
                            THEN "active" ELSE "trialing"])
      [] e.type = SubscriptionUpdated ->
            Put(subs, e.metaOrgId, [plan |-> e.metaPlan, status |-> e.status])
      [] e.type = SubscriptionDeleted ->
            Put(subs, e.metaOrgId, [plan |-> "free", status |-> "canceled"])
      [] OTHER -> subs

\* A switch whose deleted case removes the property.
ApplyEventRemoves(subs, e) ==
    CASE e.type = CheckoutCompleted ->
            Put(subs, CheckoutFields(e).orgId,
                [plan |-> CheckoutFields(e).plan, status |-> "trialing"])
      [] e.type = SubscriptionUpdated ->
            Put(subs, e.metaOrgId, [plan |-> e.metaPlan, status |-> e.status])
      [] e.type = SubscriptionDeleted ->
            [k \in DOMAIN subs \ {PropertyKey(e.metaOrgId)} |-> subs[k]]
      [] OTHER -> subs

\* switch (type) { ... } for an event that does not throw
ApplyEvent(subs, e) ==
    CASE e.type = CheckoutCompleted ->
            Put(subs, CheckoutFields(e).orgId,
                [plan |-> CheckoutFields(e).plan, status |-> "trialing"])
      [] e.type = SubscriptionUpdated ->
            Put(subs, e.metaOrgId, [plan |-> e.metaPlan, status |-> e.status])
      [] e.type = SubscriptionDeleted ->
            Put(subs, e.metaOrgId, [plan |-> "free", status |-> "canceled"])
      [] OTHER -> subs

\* A handler that sends res.json({received: true}) ahead of the switch.
WebhookOutcomeAckFirst(subs, req) ==
    IF SignatureFails(req) THEN [subs |-> subs, response |-> "400"]
    ELSE IF Throws(req.event) THEN [subs |-> subs, response |-> "received"]
    ELSE [subs |-> ApplyEvent(subs, req.event), response |-> "received"]

\* One invocation of the handler: the map afterwards and the response sent.
\* "400" is res.status(400).send(...), "received" is res.json({received: true}),
\* "500" is the framework's answer to a handler that threw.
WebhookOutcome(subs, req) ==
    IF SignatureFails(req) THEN [subs |-> subs, response |-> "400"]
    ELSE IF Throws(req.event) THEN [subs |-> subs, response |-> "500"]
    ELSE [subs |-> ApplyEvent(subs, req.event), response |-> "received"]

\* The key an event writes, for the events that write one.
Writes(req) == ~SignatureFails(req) /\ req.event.type \in HandledTypes /\ ~Throws(req.event)

WrittenKey(e) ==
    PropertyKey(IF e.type = CheckoutCompleted THEN CheckoutFields(e).orgId ELSE e.metaOrgId)

\* A webhook call arrives.
Deliver(req) ==
    /\ received < MaxRequests
    /\ received' = received + 1
    /\ inflight' = inflight (+) SetToBag({req})
    /\ UNCHANGED <<subscriptions, log>>
    /\ UNCHANGED checkoutVars

\* app.post('/api/billing/webhooks', ...) runs for one call in flight.
HandleWebhook(req) ==
    /\ BagIn(req, inflight)
    /\ LET out == WebhookOutcome(subscriptions, req)
           rest == inflight (-) SetToBag({req})
       IN /\ subscriptions' = out.subs
          /\ inflight' = rest
          /\ log' = Append(log,
                [request |-> req, response |-> out.response,
                 racing |-> {WrittenKey(r.event) : r \in {q \in BagToSet(rest) : Writes(q)}}])
    /\ UNCHANGED received
    /\ UNCHANGED checkoutVars

Init ==
    /\ subscriptions = <<>>
    /\ inflight = EmptyBag
    /\ log = <<>>
    /\ received = 0
    /\ checkouts = <<>>
    /\ customersCreated = <<>>
    /\ sessionsRequested = <<>>

Next ==
    \/ \E req \in Requests : Deliver(req)
    \/ \E req \in Requests : HandleWebhook(req)

Spec == Init /\ [][Next]_vars

\* ------------------------------------------------------------------ checkout handler

PricePro == "price_pro"             \* STRIPE_PRICE_PRO_MONTHLY
PriceBusiness == "price_business"   \* STRIPE_PRICE_BUSINESS_MONTHLY

\* req.body.plan and req.body.orgId as a client may send them
BodyPlans == Plans \cup {"enterprise", Undefined}
BodyOrgIds == OrgIds \cup {Undefined}

\* !plan || !orgId
MissingField(plan, orgId) == plan = Undefined \/ orgId = Undefined

\* plan === 'business' ? STRIPE_PRICE_BUSINESS_MONTHLY : STRIPE_PRICE_PRO_MONTHLY
PriceId(plan) == IF plan = "business" THEN PriceBusiness ELSE PricePro

\* The handler up to its first await: the check of the body, the price, and
\* getOrCreateCustomer's call of stripe.customers.create.
CheckoutStart(plan, orgId) ==
    /\ Len(checkouts) < MaxCheckouts
    /\ IF MissingField(plan, orgId)
       THEN /\ checkouts' = Append(checkouts,
                    [plan |-> plan, orgId |-> orgId, priceId |-> Undefined,
                     pc |-> "done", response |-> "400"])
            /\ UNCHANGED customersCreated
       ELSE /\ checkouts' = Append(checkouts,
                    [plan |-> plan, orgId |-> orgId, priceId |-> PriceId(plan),
                     pc |-> "awaitCustomer", response |-> "pending"])
            /\ customersCreated' = Append(customersCreated,
                    [call |-> Len(checkouts) + 1, orgId |-> orgId])
    /\ UNCHANGED sessionsRequested
    /\ UNCHANGED webhookVars

\* stripe.customers.create settles: on success the handler goes on to call
\* stripe.checkout.sessions.create, on failure the catch answers 500.
CustomerSettled(i, ok) ==
    /\ checkouts[i].pc = "awaitCustomer"
    /\ IF ok
       THEN /\ checkouts' = [checkouts EXCEPT ![i].pc = "awaitSession"]
            /\ sessionsRequested' = Append(sessionsRequested,
                    [call |-> i, price |-> checkouts[i].priceId,
                     orgId |-> checkouts[i].orgId, plan |-> checkouts[i].plan])
       ELSE /\ checkouts' = [checkouts EXCEPT ![i].pc = "done", ![i].response = "500"]
            /\ UNCHANGED sessionsRequested
    /\ UNCHANGED customersCreated
    /\ UNCHANGED webhookVars

\* stripe.checkout.sessions.create settles: res.json({url}) or the catch's 500.
SessionSettled(i, ok) ==
    /\ checkouts[i].pc = "awaitSession"
    /\ checkouts' = [checkouts EXCEPT ![i].pc = "done",
                                      ![i].response = IF ok THEN "url" ELSE "500"]
    /\ UNCHANGED <<customersCreated, sessionsRequested>>
    /\ UNCHANGED webhookVars

CheckoutNext ==
    \/ \E plan \in BodyPlans, orgId \in BodyOrgIds : CheckoutStart(plan, orgId)
    \/ \E i \in 1..Len(checkouts), ok \in BOOLEAN : CustomerSettled(i, ok)
    \/ \E i \in 1..Len(checkouts), ok \in BOOLEAN : SessionSettled(i, ok)

CheckoutSpec == Init /\ [][CheckoutNext]_vars

\* ------------------------------------------------------------------ what the properties speak of

\* The decoded event of the specification, read off the raw event: its
\* organisation, its plan, and the record the projector is to store for it.
EventOrgId(e) ==
    IF e.type = CheckoutCompleted /\ ~e.subscription THEN e.orgId ELSE e.metaOrgId

EventPlan(e) ==
    IF e.type = CheckoutCompleted /\ ~e.subscription THEN e.plan ELSE e.metaPlan

StoreKey(e) == IF EventOrgId(e) = Undefined THEN "undefined" ELSE EventOrgId(e)

Projected(e) ==
    CASE e.type = CheckoutCompleted -> [plan |-> EventPlan(e), status |-> "trialing"]
      [] e.type = SubscriptionUpdated -> [plan |-> EventPlan(e), status |-> e.status]
      [] e.type = SubscriptionDeleted -> [plan |-> "free", status |-> "canceled"]

\* The event is of a handled kind and the object that holds its organisation is missing.
Unreadable(e) ==
    /\ e.type \in HandledTypes
    /\ ~e.hasMetadata
    /\ e.type = CheckoutCompleted => e.subscription

\* A verified event of a handled kind that names its fields.
Decoded(req) == req.sigValid /\ req.event.type \in HandledTypes /\ ~Unreadable(req.event)

HasRecord(k) == k \in DOMAIN subscriptions

Last == log[Len(log)]

\* The handled events for key k, by position in the log.
EventsFor(k) ==
    {j \in 1..Len(log) : Decoded(log[j].request) /\ StoreKey(log[j].request.event) = k}

MaxOf(S) == CHOOSE x \in S : \A y \in S : y <= x

\* ------------------------------------------------------------------ properties

\* C1: after any sequence of verified events, every organisation's record is
\* the one projected from the latest handled event for it in handling order,
\* and an organisation with no handled event has no record.
C1_LatestEventWins ==
    /\ DOMAIN subscriptions \subseteq Keys
    /\ \A k \in Keys :
        IF EventsFor(k) = {}
        THEN ~HasRecord(k)
        ELSE /\ HasRecord(k)
             /\ subscriptions[k] = Projected(log[MaxOf(EventsFor(k))].request.event)

\* Scenario C: checkout, update, delete for acme; globex was never named.
C1_Witness ==
    /\ Len(log) = 3
    /\ \A j \in 1..3 : Decoded(log[j].request) /\ StoreKey(log[j].request.event) = "acme"
    /\ log[1].request.event.type = CheckoutCompleted
    /\ log[2].request.event.type = SubscriptionUpdated
    /\ log[3].request.event.type = SubscriptionDeleted
    /\ subscriptions["acme"] = [plan |-> "free", status |-> "canceled"]
    /\ ~HasRecord("globex")

\* C2: handling a verified event identical to the one handled just before
\* leaves the whole map as it was.
C2_Idempotent ==
    [][(/\ Len(log) > 0
        /\ Len(log') = Len(log) + 1
        /\ log'[Len(log')].request.sigValid
        /\ log'[Len(log')].request = Last.request)
       => subscriptions' = subscriptions]_vars

\* An update to active, then the same checkout event twice.
C2_Witness ==
    /\ Len(log) = 3
    /\ log[1].request.event.type = SubscriptionUpdated
    /\ Decoded(log[1].request)
    /\ log[2].request = log[3].request
    /\ Decoded(log[3].request)
    /\ log[3].request.event.type = CheckoutCompleted
    /\ StoreKey(log[1].request.event) = StoreKey(log[3].request.event)
    /\ subscriptions[StoreKey(log[3].request.event)] = Projected(log[3].request.event)

\* C3: a call whose signature does not verify is answered 400, never
\* {received: true}, and leaves the map unchanged.
C3_BadSignatureRejected ==
    [][(Len(log') = Len(log) + 1 /\ ~log'[Len(log')].request.sigValid)
       => /\ subscriptions' = subscriptions
          /\ log'[Len(log')].response = "400"]_vars

\* A rejected call whose event, had it been applied, would have changed a record.
C3_Witness ==
    /\ Len(log) > 0
    /\ ~Last.request.sigValid
    /\ Last.response = "400"
    /\ HasRecord(StoreKey(Last.request.event))
    /\ subscriptions[StoreKey(Last.request.event)] # Projected(Last.request.event)

\* C4: for a verified event of a handled kind, {received: true} is sent only
\* when the event's record has been written; an event whose fields cannot be
\* read is not acknowledged and leaves the map unchanged.
C4_AckOnlyAfterWrite ==
    [][(/\ Len(log') = Len(log) + 1
        /\ log'[Len(log')].request.sigValid
        /\ log'[Len(log')].request.event.type \in HandledTypes)
       => LET e == log'[Len(log')].request.event
              response == log'[Len(log')].response
          IN /\ response = "received" =>
                    /\ ~Unreadable(e)
                    /\ StoreKey(e) \in DOMAIN subscriptions'
                    /\ subscriptions'[StoreKey(e)] = Projected(e)
             /\ Unreadable(e) =>
                    /\ response # "received"
                    /\ subscriptions' = subscriptions]_vars

\* An acknowledged checkout, then an update without metadata answered 500.
C4_Witness ==
    /\ Len(log) = 2
    /\ Decoded(log[1].request)
    /\ log[1].response = "received"
    /\ log[2].request.sigValid
    /\ Unreadable(log[2].request.event)
    /\ log[2].response = "500"
    /\ subscriptions[StoreKey(log[1].request.event)] = Projected(log[1].request.event)

\* C5: a verified event of any other kind leaves the map unchanged and is
\* acknowledged with {received: true}.
C5_UnknownKindIgnored ==
    [][(/\ Len(log') = Len(log) + 1
        /\ log'[Len(log')].request.sigValid
        /\ log'[Len(log')].request.event.type \notin HandledTypes)
       => /\ subscriptions' = subscriptions
          /\ log'[Len(log')].response = "received"]_vars

\* An invoice.paid event acknowledged while a record is stored.
C5_Witness ==
    /\ Len(log) > 1
    /\ Last.request.sigValid
    /\ Last.request.event.type = InvoicePaid
    /\ Last.response = "received"
    /\ DOMAIN subscriptions # {}

\* C6: a checkout event writes exactly {plan, status: 'trialing'} under its
\* orgId, whatever record was there; before any event no organisation has a record.
C6_CheckoutWritesTrialing ==
    /\ (log = <<>> => DOMAIN subscriptions = {})
    /\ [][(/\ Len(log') = Len(log) + 1
           /\ Decoded(log'[Len(log')].request)
           /\ log'[Len(log')].request.event.type = CheckoutCompleted)
          => LET e == log'[Len(log')].request.event
             IN /\ StoreKey(e) \in DOMAIN subscriptions'
                /\ subscriptions'[StoreKey(e)] = [plan |-> EventPlan(e), status |-> "trialing"]]_vars

\* A checkout for an organisation whose record was canceled on another plan.
C6_Witness ==
    /\ Len(log) = 2
    /\ Decoded(log[1].request)
    /\ log[1].request.event.type = SubscriptionDeleted
    /\ Decoded(log[2].request)
    /\ log[2].request.event.type = CheckoutCompleted
    /\ StoreKey(log[1].request.event) = StoreKey(log[2].request.event)
    /\ EventPlan(log[2].request.event) \in Plans
    /\ subscriptions[StoreKey(log[2].request.event)]
            = [plan |-> EventPlan(log[2].request.event), status |-> "trialing"]

\* C7: an organisation that has a record keeps one in every later state, and
\* a deleted event sets its record to {plan: 'free', status: 'canceled'}.
C7_NeverRemoved ==
    [][/\ \A k \in Keys : HasRecord(k) => k \in DOMAIN subscriptions'
       /\ (/\ Len(log') = Len(log) + 1
           /\ Decoded(log'[Len(log')].request)
           /\ log'[Len(log')].request.event.type = SubscriptionDeleted)
          => LET e == log'[Len(log')].request.event
             IN /\ StoreKey(e) \in DOMAIN subscriptions'
                /\ subscriptions'[StoreKey(e)] = [plan |-> "free", status |-> "canceled"]]_vars

\* A deleted event for an organisation that had an active record.
C7_Witness ==
    /\ Len(log) = 2
    /\ Decoded(log[1].request)
    /\ log[1].request.event.type = SubscriptionUpdated
    /\ log[1].request.event.status = "active"
    /\ Decoded(log[2].request)
    /\ log[2].request.event.type = SubscriptionDeleted
    /\ StoreKey(log[1].request.event) = StoreKey(log[2].request.event)
    /\ subscriptions[StoreKey(log[2].request.event)] = [plan |-> "free", status |-> "canceled"]

\* C8: every call with a decoded event succeeds and leaves the record of
\* every other organisation as it was; when the calls handled were for
\* pairwise distinct organisations, each has the record of its own event.
C8_DistinctOrgsIndependent ==
    /\ [](( \A i, j \in 1..Len(log) :
                /\ Decoded(log[i].request)
                /\ i # j => StoreKey(log[i].request.event) # StoreKey(log[j].request.event))
          => \A i \in 1..Len(log) :
                /\ log[i].response = "received"
                /\ HasRecord(StoreKey(log[i].request.event))
                /\ subscriptions[StoreKey(log[i].request.event)] = Projected(log[i].request.event))
    /\ [][(Len(log') = Len(log) + 1 /\ Decoded(log'[Len(log')].request))
          => /\ log'[Len(log')].response = "received"
             /\ \A k \in Keys \ {StoreKey(log'[Len(log')].request.event)} :
                    /\ HasRecord(k) <=> k \in DOMAIN subscriptions'
                    /\ HasRecord(k) => subscriptions'[k] = subscriptions[k]]_vars

\* Three calls for three organisations, all in flight when the first was handled.
C8_Witness ==
    /\ Len(log) = 3
    /\ \A i \in 1..3 : Decoded(log[i].request) /\ log[i].response = "received"
    /\ {StoreKey(log[i].request.event) : i \in 1..3} = Keys
    /\ log[1].racing = Keys \ {StoreKey(log[1].request.event)}
    /\ \A i \in 1..3 :
            subscriptions[StoreKey(log[i].request.event)] = Projected(log[i].request.event)

\* C9: every stored record is the whole record of one single handled event
\* for that organisation, and the organisation of the event handled last has
\* that event's record.
C9_SameOrgSerialized ==
    /\ \A k \in DOMAIN subscriptions :
            \E j \in EventsFor(k) : subscriptions[k] = Projected(log[j].request.event)
    /\ (Len(log) > 0 /\ Decoded(Last.request))
            => /\ HasRecord(StoreKey(Last.request.event))
               /\ subscriptions[StoreKey(Last.request.event)] = Projected(Last.request.event)

\* Two different events for one organisation, the second in flight while the
\* first was handled.
C9_Witness ==
    /\ Len(log) = 2
    /\ Decoded(log[1].request)
    /\ Decoded(log[2].request)
    /\ StoreKey(log[1].request.event) = StoreKey(log[2].request.event)
    /\ StoreKey(log[2].request.event) \in log[1].racing
    /\ Projected(log[1].request.event).plan # Projected(log[2].request.event).plan
    /\ Projected(log[1].request.event).status # Projected(log[2].request.event).status
    /\ subscriptions[StoreKey(log[2].request.event)] = Projected(log[2].request.event)

\* C10: a checkout call whose plan is not in the price mapping {pro, business}
\* is answered with a client error and makes no vendor call: no customer is
\* created and no checkout session is requested.
C10_InvalidPlanRejected ==
    \A i \in 1..Len(checkouts) :
        (checkouts[i].plan \notin Plans /\ checkouts[i].orgId # Undefined)
        => /\ checkouts[i].response = "400"
           /\ \A c \in 1..Len(customersCreated) : customersCreated[c].call # i
           /\ \A c \in 1..Len(sessionsRequested) : sessionsRequested[c].call # i

====
